---- MODULE Spec2Model ----
(***************************************************************************)
(* ARcademia (src/main.py): the UDP mesh streamer (_pack_mesh,             *)
(* send_mesh_udp) and the App object's model list, scene and voice-over.   *)
(*                                                                         *)
(* Bytes are the integers 0..255; a byte string is a sequence of them.     *)
(* A Python float is named by the string of the double it holds ("0.1");   *)
(* the casts and the JSON encoder are tables and operators over these.     *)
(*                                                                         *)
(* Spec     one call of send_mesh_udp, datagram by datagram, followed by   *)
(*          the delivery of the sent datagrams to a receiver in any order. *)
(* SpecApp  the App object under any sequence of its GUI callbacks, which  *)
(*          the GUI thread runs one at a time, and of speech-thread exits. *)
(*          Toasts, redraws and camera framing are output only and are not *)
(*          part of the state.                                             *)
(***************************************************************************)
EXTENDS Integers, Sequences, FiniteSets, TLC

\* ------------------------------------------------------------------ bounds
\* Sampled meshes have 0..MaxVerts vertices.
MaxVerts == 1
\* Sampled meshes are sent with every chunk size in -MaxChunk..MaxChunk.
MaxChunk == 4
\* Vertex count of the mesh whose payload needs more than 255 fragments.
MedVerts == 4
\* Vertex count of the mesh whose payload needs more than 65535 fragments.
BigVerts == 1040
\* Datagram sets of at most this size are delivered in every order.
MaxReorder == 5
\* _speak is entered at most this many times.
MaxSpeak == 3

\* ------------------------------------------------------- program constants
UDP_CHUNK == 60000

\* ------------------------------------------------------------- exceptions
\* The outcome of an expression that may raise: exc is the exception's class
\* ("none" when it returns), val the value returned.
Ok(v) == [exc |-> "none", val |-> v]
Raise(e) == [exc |-> e, val |-> <<>>]

\* --------------------------------------------------------- Python integers
Min(a, b) == IF a < b THEN a ELSE b
Max(a, b) == IF a > b THEN a ELSE b

RECURSIVE Pow256(_)
Pow256(n) == IF n = 0 THEN 1 ELSE 256 * Pow256(n - 1)

\* a // b for b # 0: the quotient rounded towards minus infinity.
FloorDiv(a, b) ==
  IF b > 0
    THEN (IF a >= 0 THEN a \div b ELSE -(((-a) + b - 1) \div b))
    ELSE (IF a <= 0 THEN (-a) \div (-b) ELSE -((a + (-b) - 1) \div (-b)))

\* n.to_bytes(length, "big"): OverflowError for a negative n and for an n
\* that does not fit in length bytes.
ToBytes(n, length) ==
  IF n < 0 \/ n >= Pow256(length)
    THEN Raise("OverflowError")
    ELSE Ok([k \in 1..length |-> (n \div Pow256(length - k)) % 256])

\* s[lo:hi] of a byte string (a negative bound counts from the end; both are
\* clamped to the string).
SliceBound(k, n) == IF k < 0 THEN Max(k + n, 0) ELSE Min(k, n)
Slice(s, lo, hi) ==
  LET a == SliceBound(lo, Len(s))
      b == SliceBound(hi, Len(s))
  IN IF a < b THEN SubSeq(s, a + 1, b) ELSE <<>>

\* ------------------------------------------------------------ JSON encoder
\* ASCII of the fixed texts json.dumps writes around the three values.
JsonHead == <<123, 34, 116, 121, 112, 101, 34, 58, 32, 34, 109, 101, 115, 104,
              34, 44, 32, 34, 118, 101, 114, 116, 105, 99, 101, 115, 34, 58, 32>>
JsonTriangles == <<44, 32, 34, 116, 114, 105, 97, 110, 103, 108, 101, 115, 34, 58, 32>>
JsonTs == <<44, 32, 34, 116, 115, 34, 58, 32>>
JsonTail == <<125>>
JsonSep == <<44, 32>>

\* np.asarray(..., dtype=np.float32) followed by tolist(): the double nearest
\* to the float32 nearest to x.
Float32(x) ==
  CASE x = "0.1" -> "0.10000000149011612"
    [] OTHER -> x

\* json.dumps of a float (allow_nan is left at its default, True).
JsonFloat(x) ==
  CASE x = "0.0" -> <<48, 46, 48>>
    [] x = "1.0" -> <<49, 46, 48>>
    [] x = "0.5" -> <<48, 46, 53>>
    [] x = "0.10000000149011612" ->
         <<48, 46, 49, 48, 48, 48, 48, 48, 48, 48, 49, 52, 57, 48, 49, 49, 54, 49, 50>>
    [] x = "NaN" -> <<78, 97, 78>>
    [] x = "Infinity" -> <<73, 110, 102, 105, 110, 105, 116, 121>>
    [] x = "-Infinity" -> <<45, 73, 110, 102, 105, 110, 105, 116, 121>>
    [] x = "1762052000.5" -> <<49, 55, 54, 50, 48, 53, 50, 48, 48, 48, 46, 53>>
    [] x = "1762052000.25" -> <<49, 55, 54, 50, 48, 53, 50, 48, 48, 48, 46, 50, 53>>

\* json.dumps of an int: its decimal digits, "-" first when negative.
RECURSIVE JsonNat(_)
JsonNat(n) == IF n < 10 THEN <<48 + n>> ELSE Append(JsonNat(n \div 10), 48 + (n % 10))
JsonInt(n) == IF n < 0 THEN <<45>> \o JsonNat(-n) ELSE JsonNat(n)

\* The items lo..hi of a list, ", " between them.
RECURSIVE JsonItems(_, _, _)
JsonItems(items, lo, hi) ==
  IF lo > hi THEN <<>>
  ELSE IF lo = hi THEN items[lo]
  ELSE LET mid == (lo + hi) \div 2
       IN JsonItems(items, lo, mid) \o JsonSep \o JsonItems(items, mid + 1, hi)

JsonList(items) == <<91>> \o JsonItems(items, 1, Len(items)) \o <<93>>

\* reshape(-1).tolist() of an n x 3 array.
Flatten(rows) ==
  [k \in 1..(3 * Len(rows)) |-> rows[((k - 1) \div 3) + 1][((k - 1) % 3) + 1]]

\* _pack_mesh, with time.time() returning ts. It has no failing path: the
\* encoder writes NaN, Infinity and -Infinity for non-finite floats.
pack_mesh(m, ts) ==
  LET fv == Flatten(m.vertices)
      v == [k \in 1..Len(fv) |-> Float32(fv[k])]
      t == Flatten(m.triangles)
  IN Ok(JsonHead \o JsonList([k \in 1..Len(v) |-> JsonFloat(v[k])])
        \o JsonTriangles \o JsonList([k \in 1..Len(t) |-> JsonInt(t[k])])
        \o JsonTs \o JsonFloat(ts) \o JsonTail)

\* ------------------------------------------------------------ send_mesh_udp
\* header = b"ARC\x01"
header == <<65, 82, 67, 1>>

\* parts = (total + chunk - 1) // chunk
\* (fault variant: total // chunk, the last partial fragment forgotten)
NumPartsTruncated(total_, chunk_) ==
  IF chunk_ = 0 THEN Raise("ZeroDivisionError")
  ELSE Ok(FloorDiv(total_, chunk_))
NumParts(total_, chunk_) ==
  IF chunk_ = 0 THEN Raise("ZeroDivisionError")
  ELSE Ok(FloorDiv(total_ + chunk_ - 1, chunk_))

\* part = data[i * chunk : (i + 1) * chunk]
\* (fault variant: the slice runs one byte into the next fragment)
PartOneMore(data_, k, chunk_) == Slice(data_, k * chunk_, (k + 1) * chunk_ + 1)
Part(data_, k, chunk_) == Slice(data_, k * chunk_, (k + 1) * chunk_)

\* i.to_bytes(2, "big")
\* (fault variants: one byte, little-endian, counting from 1)
IndexFieldNarrow(k) == ToBytes(k, 1)
IndexFieldLittle(k) ==
  IF k < 0 \/ k >= 65536 THEN Raise("OverflowError") ELSE Ok(<<k % 256, k \div 256>>)
IndexFieldOneBased(k) == ToBytes(k + 1, 2)
IndexField(k) == ToBytes(k, 2)

\* parts.to_bytes(2, "big")
\* (fault variant: the count reduced modulo 65536 instead of raising)
TotalFieldWrapped(n) == Ok(<<(n \div 256) % 256, n % 256>>)
TotalField(n) == ToBytes(n, 2)

\* pkt = header + i.to_bytes(2, "big") + parts.to_bytes(2, "big") + part
MakePkt(k, n, part) ==
  LET a == IndexField(k)
      b == TotalField(n)
  IN IF a.exc # "none" THEN a
     ELSE IF b.exc # "none" THEN b
     ELSE Ok(header \o a.val \o b.val \o part)

\* ------------------------------------------------------------------ inputs
SampleVertices ==
  { <<"0.0", "0.0", "0.0">>, <<"1.0", "0.5", "0.1">>, <<"NaN", "Infinity", "-Infinity">> }
SampleTriangles == { <<>>, << <<0, 1, 2>>, <<0, 2, 13>> >> }

\* The square of two triangles.
QuadMesh ==
  [vertices |-> << <<"0.0", "0.0", "0.0">>, <<"1.0", "0.0", "0.0">>,
                   <<"1.0", "1.0", "0.0">>, <<"0.0", "1.0", "0.0">> >>,
   triangles |-> << <<0, 1, 2>>, <<0, 2, 3>> >>]

SmallMeshes ==
  { [vertices |-> vs, triangles |-> ts] :
      vs \in UNION { [1..n -> SampleVertices] : n \in 0..MaxVerts },
      ts \in SampleTriangles } \cup {QuadMesh}

\* n copies of one vertex, one triangle.
DenseMesh(n) ==
  [vertices |-> [k \in 1..n |-> <<"0.1", "0.1", "0.1">>],
   triangles |-> << <<0, 1, 2>> >>]

SmallChunks == ((-MaxChunk)..MaxChunk) \cup {16, 32, UDP_CHUNK, -UDP_CHUNK}

\* The calls: every sampled mesh with every small chunk size, the medium
\* mesh byte by byte, the big mesh byte by byte and with the default chunk.
Calls ==
  (SmallMeshes \X SmallChunks)
    \cup ({DenseMesh(MedVerts)} \X {1, 16})
    \cup ({DenseMesh(BigVerts)} \X {1, UDP_CHUNK})

TimeStamps == {"1762052000.5", "1762052000.25"}

\* ---------------------------------------------------------------- receiver
\* The Reassembler (no receiver is part of main.py). A datagram shorter than
\* the header or with another magic is dropped; the first fragment of a
\* message fixes total; a body is stored at its index; when all total slots
\* are filled the bodies are concatenated in index order. Expiry by timeout
\* is left out: no datagram of the message is lost here.
FragIndex(pkt) == pkt[5] * 256 + pkt[6]
FragTotal(pkt) == pkt[7] * 256 + pkt[8]
FragBody(pkt) == SubSeq(pkt, 9, Len(pkt))

Idle == [state |-> "IDLE", total |-> 0, slots |-> <<>>, payload |-> <<>>]

RECURSIVE ConcatSlots(_, _)
ConcatSlots(slots, n) ==
  IF n = 0 THEN <<>> ELSE ConcatSlots(slots, n - 1) \o slots[n - 1]

Store(r, pkt) ==
  LET slots == [k \in DOMAIN r.slots \cup {FragIndex(pkt)} |->
                  IF k = FragIndex(pkt) THEN FragBody(pkt) ELSE r.slots[k]]
  IN IF DOMAIN slots = 0..(r.total - 1)
       THEN [state |-> "COMPLETE", total |-> r.total, slots |-> slots,
             payload |-> ConcatSlots(slots, r.total)]
       ELSE [r EXCEPT !.slots = slots]

Reassemble(r, pkt) ==
  IF Len(pkt) < 8 \/ SubSeq(pkt, 1, 4) # <<65, 82, 67, 1>> THEN r
  ELSE IF FragTotal(pkt) < 1 \/ FragIndex(pkt) >= FragTotal(pkt) THEN r
  ELSE IF r.state = "COLLECTING" /\ r.total = FragTotal(pkt) THEN Store(r, pkt)
  ELSE Store([state |-> "COLLECTING", total |-> FragTotal(pkt),
              slots |-> <<>>, payload |-> <<>>], pkt)

\* --------------------------------------------------------------- the App
\* The file system the App reads: two folders. Names are listed in the order
\* sorted() gives paths (upper case before lower case).
MODELS_DIR == "cad_files"
Dirs == {"cad_files", "other", "missing"}
NameOrder == <<"C.STL", "a.stl", "b.obj", "notes.txt">>
DirListing(d) ==
  CASE d = "cad_files" -> {"a.stl", "b.obj", "notes.txt", "C.STL"}
    [] d = "other" -> {"a.stl", "b.obj"}
    [] OTHER -> {}

\* p.suffix.lower()
SuffixLower(n) ==
  CASE n = "C.STL" -> ".stl"
    [] n = "a.stl" -> ".stl"
    [] n = "b.obj" -> ".obj"
    [] OTHER -> ".txt"
SUPPORTED_EXTS == {".stl", ".obj"}

\* What o3d.io.read_triangle_mesh gives for a path: the mesh's vertex and
\* triangle counts (no triangles for a file it cannot read).
FileMesh(path) ==
  CASE path = <<"cad_files", "a.stl">> -> [path |-> path, v |-> 3, t |-> 1]
    [] path = <<"cad_files", "b.obj">> -> [path |-> path, v |-> 4, t |-> 2]
    [] path = <<"other", "a.stl">> -> [path |-> path, v |-> 8, t |-> 12]
    [] OTHER -> [path |-> path, v |-> 0, t |-> 0]

Items(seq) == {seq[k] : k \in 1..Len(seq)}
EmptyMap == [n \in {} |-> 0]
Put(f, k, v) == [n \in DOMAIN f \cup {k} |-> IF n = k THEN v ELSE f[n]]
Drop(f, k) == [n \in DOMAIN f \ {k} |-> f[n]]

RECURSIVE SortedFrom(_, _)
SortedFrom(names, k) ==
  IF k > Len(NameOrder) THEN <<>>
  ELSE (IF NameOrder[k] \in names THEN <<NameOrder[k]>> ELSE <<>>)
         \o SortedFrom(names, k + 1)

\* _scan
Scan(d) ==
  IF d = "missing" THEN <<>>
  ELSE SortedFrom({n \in DirListing(d) : SuffixLower(n) \in SUPPORTED_EXTS}, 1)

\* _load_mesh: None (NoneMesh) for a mesh without triangles.
NoneMesh == [path |-> <<>>, v |-> 0, t |-> 0]
load_mesh(path) ==
  LET m == FileMesh(path) IN IF m.t = 0 THEN NoneMesh ELSE m

\* _update_stats
RECURSIVE SumOver(_, _, _)
SumOver(names, f, field) ==
  IF names = {} THEN 0
  ELSE LET n == CHOOSE x \in names : TRUE
       IN (IF field = "v" THEN f[n].v ELSE f[n].t) + SumOver(names \ {n}, f, field)
update_stats(scene_, loaded_) ==
  LET known == DOMAIN scene_ \cap DOMAIN loaded_
  IN <<SumOver(known, loaded_, "v"), SumOver(known, loaded_, "t")>>

\* _speak's test self.tts_thread and self.tts_thread.is_alive()
\* (fault variant: the test left out)
SpeechBusyNever(th, ths) == FALSE
SpeechBusy(th, ths) == th # 0 /\ ths[th].state = "alive"

\* ------------------------------------------------------------------- state
VARIABLES
  pc,       \* send_mesh_udp: "idle", "loop", "returned", "raised"
  mesh,     \* its argument mesh
  chunk,    \* its argument chunk
  data,     \* data, the payload
  total,    \* total = len(data)
  parts,    \* parts
  i,        \* the loop variable
  sock,     \* the socket: "none", "open", "closed"
  sent,     \* the datagrams sendto has sent, in order
  err,      \* the exception the call raised, "none" if none
  ret,      \* the value the call returned, -1 before it returns
  delivered,\* the positions in sent of the datagrams delivered, in arrival order
  rx,       \* the receiver's reassembly state
  models_dir,  \* App.models_dir
  list_items,  \* the items of App.list
  entries,     \* App.entries: name -> path
  loaded,      \* App.loaded: name -> mesh
  selected,    \* App.selected, "None" if None
  scene,       \* the geometries of App.scene: name -> mesh
  stats,       \* the totals App.stats shows, <<>> for "Stats: -"
  tts_engine,  \* whether App.tts_engine is an engine (not None)
  tts_thread,  \* App.tts_thread: 0 if None, else the thread's number
  threads,     \* the speech threads started, each "alive" or "dead", and its text
  speak_calls  \* how many times _speak has been entered

tvars == <<pc, mesh, chunk, data, total, parts, i, sock, sent, err, ret>>
nvars == <<delivered, rx>>
gvars == <<models_dir, list_items, entries, loaded, selected, scene, stats>>
svars == <<tts_engine, tts_thread, threads, speak_calls>>
avars == <<gvars, svars>>
vars == <<tvars, nvars, avars>>

NoMesh == [vertices |-> <<>>, triangles |-> <<>>]

Init ==
  /\ pc = "idle"
  /\ mesh = NoMesh
  /\ chunk = 0
  /\ data = <<>>
  /\ total = 0
  /\ parts = 0
  /\ i = 0
  /\ sock = "none"
  /\ sent = <<>>
  /\ err = "none"
  /\ ret = -1
  /\ delivered = <<>>
  /\ rx = Idle
  /\ models_dir = MODELS_DIR
  /\ list_items = Scan(MODELS_DIR)
  /\ entries = [n \in Items(Scan(MODELS_DIR)) |-> <<MODELS_DIR, n>>]
  /\ loaded = EmptyMap
  /\ selected = "None"
  /\ scene = EmptyMap
  /\ stats = <<>>
  /\ tts_engine \in BOOLEAN
  /\ tts_thread = 0
  /\ threads = <<>>
  /\ speak_calls = 0

\* Lines 563-568 with a chunk that divides: the payload is packed, the socket
\* opened and parts computed; the loop is entered.
CallEnters ==
  /\ pc = "idle"
  /\ \E c \in Calls, ts \in TimeStamps :
     \E d \in {pack_mesh(c[1], ts)} : \E n \in {NumParts(Len(d.val), c[2])} :
          /\ d.exc = "none"
          /\ n.exc = "none"
          /\ mesh' = c[1]
          /\ chunk' = c[2]
          /\ data' = d.val
          /\ total' = Len(d.val)
          /\ parts' = n.val
          /\ sock' = "open"
          /\ pc' = "loop"
  /\ i' = 0
  /\ UNCHANGED <<sent, err, ret, nvars, avars>>

\* Lines 563-568 and 573-574 when computing parts raises: the socket is
\* closed and the exception leaves the call.
CallRaises ==
  /\ pc = "idle"
  /\ \E c \in Calls, ts \in TimeStamps :
     \E d \in {pack_mesh(c[1], ts)} : \E n \in {NumParts(Len(d.val), c[2])} :
          /\ d.exc = "none"
          /\ n.exc # "none"
          /\ mesh' = c[1]
          /\ chunk' = c[2]
          /\ data' = d.val
          /\ total' = Len(d.val)
          /\ err' = n.exc
          /\ sock' = "closed"
          /\ pc' = "raised"
  /\ UNCHANGED <<parts, i, sent, ret, nvars, avars>>

\* Lines 569-572, one iteration whose sendto returns.
\* (fault variant: the previous datagram is sent again after the new one)
SendOkResends ==
  /\ pc = "loop"
  /\ i < parts
  /\ LET pkt == MakePkt(i, parts, Part(data, i, chunk))
     IN /\ pkt.exc = "none"
        /\ sent' = Append(sent, pkt.val) \o (IF i > 0 THEN <<sent[i]>> ELSE <<>>)
  /\ i' = i + 1
  /\ UNCHANGED <<pc, mesh, chunk, data, total, parts, sock, err, ret, nvars, avars>>
SendOk ==
  /\ pc = "loop"
  /\ i < parts
  /\ LET pkt == MakePkt(i, parts, Part(data, i, chunk))
     IN /\ pkt.exc = "none"
        /\ sent' = Append(sent, pkt.val)
  /\ i' = i + 1
  /\ UNCHANGED <<pc, mesh, chunk, data, total, parts, sock, err, ret, nvars, avars>>

\* Lines 569-574, one iteration whose sendto raises OSError.
\* (fault variant: the exception is swallowed and the loop goes on)
SendFailsContinues ==
  /\ pc = "loop"
  /\ i < parts
  /\ MakePkt(i, parts, Part(data, i, chunk)).exc = "none"
  /\ err' = "OSError"
  /\ i' = i + 1
  /\ UNCHANGED <<pc, mesh, chunk, data, total, parts, sock, sent, ret, nvars, avars>>
SendFails ==
  /\ pc = "loop"
  /\ i < parts
  /\ MakePkt(i, parts, Part(data, i, chunk)).exc = "none"
  /\ err' = "OSError"
  /\ sock' = "closed"
  /\ pc' = "raised"
  /\ UNCHANGED <<mesh, chunk, data, total, parts, i, sent, ret, nvars, avars>>

\* Lines 569-574, one iteration in which building pkt raises.
PktRaises ==
  /\ pc = "loop"
  /\ i < parts
  /\ LET pkt == MakePkt(i, parts, Part(data, i, chunk))
     IN /\ pkt.exc # "none"
        /\ err' = pkt.exc
  /\ sock' = "closed"
  /\ pc' = "raised"
  /\ UNCHANGED <<mesh, chunk, data, total, parts, i, sent, ret, nvars, avars>>

\* Lines 569 and 573-575: range(parts) is exhausted.
Return ==
  /\ pc = "loop"
  /\ i >= parts
  /\ sock' = "closed"
  /\ ret' = total
  /\ pc' = "returned"
  /\ UNCHANGED <<mesh, chunk, data, total, parts, i, sent, err, nvars, avars>>

\* The network hands one datagram of a completed call, any one not yet
\* delivered, to the receiver.
Deliver ==
  /\ pc = "returned"
  /\ Len(sent) <= MaxReorder
  /\ \E k \in (1..Len(sent)) \ {delivered[j] : j \in 1..Len(delivered)} :
       /\ delivered' = Append(delivered, k)
       /\ rx' = Reassemble(rx, sent[k])
  /\ UNCHANGED <<tvars, avars>>

\* ---------------------------------------------------------- App callbacks
\* refresh_list
refresh_list ==
  /\ list_items' = Scan(models_dir)
  /\ entries' = [n \in Items(Scan(models_dir)) |-> <<models_dir, n>>]
  /\ UNCHANGED <<tvars, nvars, models_dir, loaded, selected, scene, stats, svars>>

\* _on_select
on_select ==
  /\ \E idx \in -1..Len(list_items) :
       selected' = IF 0 <= idx /\ idx < Len(list_items)
                     THEN list_items[idx + 1] ELSE selected
  /\ UNCHANGED <<tvars, nvars, models_dir, list_items, entries, loaded, scene,
                 stats, svars>>

\* _choose_folder, the dialog closed with a folder (_ok)
choose_folder ==
  /\ \E path \in Dirs :
       /\ models_dir' = path
       /\ list_items' = Scan(path)
       /\ entries' = [n \in Items(Scan(path)) |-> <<path, n>>]
  /\ loaded' = EmptyMap
  /\ selected' = "None"
  /\ UNCHANGED <<tvars, nvars, scene, stats, svars>>

\* display_selected
display_selected ==
  /\ IF selected = "None"
       THEN UNCHANGED <<loaded, scene, stats>>
       ELSE IF selected \notin DOMAIN entries
         THEN /\ scene' = EmptyMap
              /\ UNCHANGED <<loaded, stats>>
         ELSE LET m == load_mesh(entries[selected])
              IN IF m = NoneMesh
                   THEN /\ scene' = EmptyMap
                        /\ UNCHANGED <<loaded, stats>>
                   ELSE /\ loaded' = Put(EmptyMap, selected, m)
                        /\ scene' = Put(EmptyMap, selected, m)
                        /\ stats' = update_stats(scene', loaded')
  /\ UNCHANGED <<tvars, nvars, models_dir, list_items, entries, selected, svars>>

\* add_selected
add_selected ==
  /\ IF selected = "None"
       THEN UNCHANGED <<loaded, scene, stats>>
       ELSE IF selected \notin DOMAIN entries
         THEN UNCHANGED <<loaded, scene, stats>>
         ELSE LET m == IF selected \in DOMAIN loaded THEN loaded[selected]
                       ELSE load_mesh(entries[selected])
              IN IF m = NoneMesh
                   THEN UNCHANGED <<loaded, scene, stats>>
                   ELSE /\ loaded' = Put(loaded, selected, m)
                        /\ scene' = Put(scene, selected, m)
                        /\ stats' = update_stats(scene', loaded')
  /\ UNCHANGED <<tvars, nvars, models_dir, list_items, entries, selected, svars>>

\* remove_selected
remove_selected ==
  /\ IF selected = "None"
       THEN UNCHANGED <<loaded, scene, stats>>
       ELSE /\ scene' = Drop(scene, selected)
            /\ loaded' = Drop(loaded, selected)
            /\ stats' = update_stats(scene', loaded')
  /\ UNCHANGED <<tvars, nvars, models_dir, list_items, entries, selected, svars>>

\* _speak(text)
speak(text) ==
  /\ speak_calls' = speak_calls + 1
  /\ IF ~tts_engine
       THEN UNCHANGED <<tts_thread, threads>>
       ELSE IF SpeechBusy(tts_thread, threads)
         THEN UNCHANGED <<tts_thread, threads>>
         ELSE /\ threads' = Append(threads, [state |-> "alive", text |-> text])
              /\ tts_thread' = Len(threads) + 1

\* describe_model's body
describe_model_body ==
  IF selected = "None"
    THEN UNCHANGED <<tts_thread, threads, speak_calls>>
    ELSE IF selected \notin DOMAIN loaded
      THEN UNCHANGED <<tts_thread, threads, speak_calls>>
      ELSE speak(<<selected>>)

\* describe_model, the callback of the "Describe Model" button, which exists
\* only when the App has a TTS engine.
describe_model ==
  /\ tts_engine
  /\ speak_calls < MaxSpeak
  /\ describe_model_body
  /\ UNCHANGED <<tvars, nvars, gvars, tts_engine>>

\* describe_scene, the callback of the "Describe Scene" button, which exists
\* only when the App has a TTS engine.
describe_scene ==
  /\ tts_engine
  /\ speak_calls < MaxSpeak
  /\ LET geom_names == DOMAIN scene \cap DOMAIN loaded
     IN IF geom_names = {}
          THEN UNCHANGED <<tts_thread, threads, speak_calls>>
          ELSE IF Cardinality(geom_names) = 1
            THEN describe_model_body
            ELSE speak(SortedFrom(geom_names, 1))
  /\ UNCHANGED <<tvars, nvars, gvars, tts_engine>>

\* speak_thread returns: runAndWait has ended or raised.
speak_thread_exit ==
  /\ \E k \in 1..Len(threads) :
       /\ threads[k].state = "alive"
       /\ threads' = [threads EXCEPT ![k].state = "dead"]
  /\ UNCHANGED <<tvars, nvars, gvars, tts_engine, tts_thread, speak_calls>>

NextApp ==
  \/ refresh_list
  \/ on_select
  \/ choose_folder
  \/ display_selected
  \/ add_selected
  \/ remove_selected
  \/ describe_model
  \/ describe_scene
  \/ speak_thread_exit

SpecApp == Init /\ [][NextApp]_vars

Next ==
  \/ CallEnters
  \/ CallRaises
  \/ SendOk
  \/ SendFails
  \/ PktRaises
  \/ Return
  \/ Deliver

Spec == Init /\ [][Next]_vars

\* ------------------------------------------------------------------ claims
\* What a datagram on the wire says, read byte by byte.
WireIndex(p) == p[5] * 256 + p[6]
WireTotal(p) == p[7] * 256 + p[8]
WireBody(p) == SubSeq(p, 9, Len(p))
CeilDiv(a, b) == IF a % b = 0 THEN a \div b ELSE (a \div b) + 1
Called == pc # "idle"

\* The bodies of the datagrams carrying the indices 0..n-1, in that order.
RECURSIVE BodiesByIndex(_, _)
BodiesByIndex(dgrams, n) ==
  IF n = 0 THEN <<>>
  ELSE BodiesByIndex(dgrams, n - 1)
         \o WireBody(dgrams[CHOOSE k \in 1..Len(dgrams) : WireIndex(dgrams[k]) = n - 1])

\* C1: a call that returns, with chunk >= 1 and ceil(L/chunk) <= 65535, has
\* sent exactly ceil(L/chunk) datagrams, one per index 0..ceil(L/chunk)-1, and
\* their bodies concatenated in ascending index order are the payload.
C1_FragmentationComplete ==
  (pc = "returned" /\ chunk >= 1 /\ CeilDiv(Len(data), chunk) <= 65535) =>
    /\ Len(sent) = CeilDiv(Len(data), chunk)
    /\ \A n \in 0..(Len(sent) - 1) :
         Cardinality({k \in 1..Len(sent) : WireIndex(sent[k]) = n}) = 1
    /\ BodiesByIndex(sent, Len(sent)) = data
    /\ ret = Len(data)

C1_Witness ==
  /\ pc = "returned"
  /\ chunk >= 1
  /\ Len(sent) >= 3
  /\ Len(data) % chunk # 0
  /\ BodiesByIndex(sent, Len(sent)) = data

C3_FailFast ==
  (err \notin {"none", "OSError"}) => (pc = "raised" /\ sent = <<>> /\ i = 0)

C3_Witness ==
  /\ pc = "raised"
  /\ err = "ZeroDivisionError"
  /\ chunk = 0
  /\ Len(data) > 0
  /\ sent = <<>>

\* C4: every datagram sent starts with 'A','R','C',1, then the index and the
\* total as unsigned 16-bit big-endian integers, then the body; the k-th
\* datagram (from 0) carries index k, all carry the same total, the number of
\* fragments of the message, and 0 <= index < total.
C4_Header ==
  \A k \in 1..Len(sent) :
    LET p == sent[k]
    IN /\ Len(p) >= 8
       /\ \A j \in 1..Len(p) : p[j] \in 0..255
       /\ <<p[1], p[2], p[3], p[4]>> = <<65, 82, 67, 1>>
       /\ WireIndex(p) = k - 1
       /\ chunk >= 1
       /\ WireTotal(p) = CeilDiv(Len(data), chunk)
       /\ WireTotal(p) = WireTotal(sent[1])
       /\ WireTotal(p) >= 1
       /\ 0 <= WireIndex(p) /\ WireIndex(p) < WireTotal(p)

C4_Witness ==
  \E k \in 1..Len(sent) :
    /\ sent[k][5] = 1 /\ sent[k][6] = 2
    /\ sent[k][7] = 1 /\ sent[k][8] > 0

\* C5: every body sent is the slice of the payload that starts at
\* index * chunk; all but the last fragment's have exactly chunk bytes, the
\* last one's has between 1 and chunk bytes.
C5_BodySize ==
  \A k \in 1..Len(sent) :
    LET b == WireBody(sent[k])
        last == CeilDiv(Len(data), chunk)
    IN /\ chunk >= 1
       /\ Len(b) >= 1 /\ Len(b) <= chunk
       /\ k < last => Len(b) = chunk
       /\ k <= last
       /\ (k - 1) * chunk + Len(b) <= Len(data)
       /\ k = last => (k - 1) * chunk + Len(b) = Len(data)
       /\ b = [j \in 1..Len(b) |-> data[(k - 1) * chunk + j]]

C5_Witness ==
  /\ Len(sent) >= 2
  /\ chunk = 16
  /\ \E k \in 1..Len(sent) :
       Len(WireBody(sent[k])) < chunk /\ Len(WireBody(sent[k])) >= 1

\* C6: every step sends at most one datagram, after those already sent, and
\* the datagram sent carries the index that follows the last index sent (0
\* for the first): ascending order, every index once, nothing sent twice.
C6_AscendingOnce ==
  [][sent' # sent =>
       /\ Len(sent') = Len(sent) + 1
       /\ SubSeq(sent', 1, Len(sent)) = sent
       /\ WireIndex(sent'[Len(sent')]) = Len(sent)
       /\ \A k \in 1..Len(sent) : WireIndex(sent[k]) = k - 1]_vars

C6_Witness ==
  /\ pc = "raised"
  /\ Len(sent) >= 3
  /\ \A k \in 1..Len(sent) : WireIndex(sent[k]) = k - 1

\* C7: once sendto has failed for fragment k the call has ended with that
\* error: no value is returned, the datagrams sent are those of the indices
\* 0..k-1, and no further step sends or returns.
C7_AbortOnSendFailure ==
  err = "OSError" =>
    /\ pc = "raised"
    /\ ret = -1
    /\ sock = "closed"
    /\ i < parts
    /\ Len(sent) = i
    /\ \A k \in 1..Len(sent) : WireIndex(sent[k]) = k - 1
    /\ ~ENABLED SendOk /\ ~ENABLED SendFails /\ ~ENABLED Return

C7_Witness ==
  /\ err = "OSError"
  /\ Len(sent) >= 2
  /\ Len(sent) + 1 < parts

\* C8: a call whose mesh has a non-finite vertex coordinate fails with
\* SerializationError: no payload is produced and no datagram is sent.
IsFinite(x) == x \notin {"NaN", "Infinity", "-Infinity"}
HasNonFinite(m) ==
  \E k \in 1..Len(m.vertices) : \E j \in 1..3 : ~IsFinite(m.vertices[k][j])

C8_RejectsNonFinite ==
  (Called /\ HasNonFinite(mesh)) =>
    (pc = "raised" /\ err = "SerializationError" /\ data = <<>> /\ sent = <<>>)

\* C9: when every datagram of a completed call has been delivered, in
\* whatever order, the receiver has completed with the payload; the indices
\* sent are pairwise distinct and are exactly 0..total-1.
C9_AnyOrder ==
  /\ rx.state = "COMPLETE" => rx.payload = data
  /\ (pc = "returned" /\ Len(sent) >= 1 /\ Len(delivered) = Len(sent)) =>
       /\ rx.state = "COMPLETE"
       /\ rx.payload = data
       /\ {WireIndex(sent[k]) : k \in 1..Len(sent)} = 0..(WireTotal(sent[1]) - 1)
       /\ \A k, j \in 1..Len(sent) :
            WireIndex(sent[k]) = WireIndex(sent[j]) => k = j

C9_Witness ==
  /\ rx.state = "COMPLETE"
  /\ rx.payload = data
  /\ Len(delivered) >= 3
  /\ delivered[1] = Len(sent)
  /\ delivered[Len(delivered)] = 2

\* C10: at most one speech thread is alive at any time; a _speak request made
\* while a speech thread is alive starts no thread and leaves none waiting;
\* a request made while none is alive starts exactly one thread, which is
\* still running when the request returns.
AliveThreads == {k \in 1..Len(threads) : threads[k].state = "alive"}
SpeakRequested == speak_calls' = speak_calls + 1

SpeakStep ==
  /\ (SpeakRequested /\ AliveThreads # {}) =>
       (threads' = threads /\ tts_thread' = tts_thread)
  /\ (SpeakRequested /\ AliveThreads = {}) =>
       (/\ threads' = Append(threads, threads'[Len(threads')])
        /\ threads'[Len(threads')].state = "alive"
        /\ tts_thread' = Len(threads'))
  /\ (~SpeakRequested) => (Len(threads') = Len(threads))

C10_SingleVoiceOver ==
  [](Cardinality(AliveThreads) <= 1) /\ [][SpeakStep]_vars

C10_Witness ==
  /\ speak_calls = 3
  /\ Len(threads) = 2
  /\ threads[1].state = "dead"
  /\ threads[2].state = "alive"
  /\ tts_thread = 2

\* C11: a call with chunk < 1 (zero or negative) raises before any datagram
\* is sent; no call returns a byte count larger than the number of body
\* bytes it has sent.
RECURSIVE BodyBytes(_)
BodyBytes(dgrams) ==
  IF dgrams = <<>> THEN 0
  ELSE Len(WireBody(dgrams[Len(dgrams)])) + BodyBytes(SubSeq(dgrams, 1, Len(dgrams) - 1))

C11_ChunkEnforced ==
  /\ (pc \in {"returned", "raised"} /\ chunk < 1) =>
       (pc = "raised" /\ err # "none" /\ sent = <<>>)
  /\ pc = "returned" => ret = BodyBytes(sent)

\* C12: every geometry in the scene has an entry in App.loaded, so that the
\* totals _update_stats computes are those of all the models in the scene.
C12_SceneLoaded ==
  /\ DOMAIN scene \subseteq DOMAIN loaded
  /\ update_stats(scene, loaded) = update_stats(scene, scene)

====
